---- MODULE Spec2Model ----
(***************************************************************************)
(* Model of the two state machines of plugin-org:                          *)
(*   - src/shared/open.ts: open() and the domain readiness poller          *)
(*     checkLightningDomain();                                             *)
(*   - src/commands/org/create/scratch-ink.tsx: OrgCreateScratch.run(),    *)
(*     its lifecycle-event callback and the Status view.                   *)
(* Each asynchronous function is cut into steps at its awaits.             *)
(***************************************************************************)
EXTENDS Integers, Sequences, FiniteSets, TLC

(* ---------------------------------------------------------------------- *)
(* Bounds                                                                  *)
(* ---------------------------------------------------------------------- *)

\* largest value of SFDX_DOMAIN_RETRY explored
MaxRetries == 3

\* largest number of lifecycle events published on the bus
MaxEvents == 3

\* largest retryCount told apart: when the budget never exhausts, the
\* attempts numbered MaxPolls and above are merged into one
MaxPolls == 5

(* ---------------------------------------------------------------------- *)
(* open.ts: inputs and state                                               *)
(* ---------------------------------------------------------------------- *)

\* stands for the NaN that toNumber gives for a non-numeric
\* SFDX_DOMAIN_RETRY: it is no budget in -1 .. MaxRetries, and every
\* comparison of a number with it is false
NaN == 0 - 2

\* values toNumber(env.getString('SFDX_DOMAIN_RETRY', '240')) can take
\* here: the integers -1 .. MaxRetries, and NaN
Budgets == ((0 - 1) .. MaxRetries) \cup {NaN}

\* error codes dns.lookup can reject with
DnsCodes == {"ENOTFOUND", "EAI_AGAIN"}

NoErr == [n |-> 0 - 1, code |-> "none"]

VARIABLES
    retries,      \* what open.getDomainRetries() returns during this run
    urlInternal,  \* srcDevUtil.isInternalUrl(url)
    urlMatches,   \* url.match(/https?\:\/\/([^.]*)/) is not null
    urlOnly,      \* urlOnly || srcDevUtil.isSFDXContainerMode()
    opc,          \* where open() is: "start", "dns", "delay", "act", "done"
    retryCount,   \* retryCount of the running checkLightningDomain call
    olog,         \* history: resolver attempts, spinner calls and delays
    checkState,   \* checkLightningDomain: "none", "running", "ok", "threw"
    checkErr,     \* the error checkLightningDomain rejected with
    caught,       \* the error the outer catch of open() received
    openPath,     \* which "return act()" was taken: "133", "140", "148"
    actCalls,     \* number of invocations of act
    browserCalls, \* number of invocations of openBrowserWithUrl
    openResult    \* "pending", "retVal", or the name of the error thrown

openVars == << retries, urlInternal, urlMatches, urlOnly, opc, retryCount,
               olog, checkState, checkErr, caught, openPath, actCalls,
               browserCalls, openResult >>

\* scratch-ink.tsx: the state of run(), described further down
VARIABLES
    flagAsync,     \* flags.async
    hasBaseUrl,    \* the dev hub has an instance URL (line 249)
    rpc,           \* where run() is: "start", "awaiting", "done"
    asyncInstance, \* the ink instance of line 264 and the calls made on it
    statusInstance,\* the ink instance of line 268 and the calls made on it
    listeners,     \* callbacks registered for scratchOrgLifecycleEventName
    scratchOrgLifecycleData, \* stage index of the stored event, 0: undefined
    published,     \* number of lifecycle events published so far
    lastStage,     \* stage index of the latest published event, 0: none
    settled,       \* how the scratchOrgCreate promise settled
    out,           \* what the command wrote: log, info, logSuccess, error
    runResult      \* how run() ended

runVars == << flagAsync, hasBaseUrl, rpc, asyncInstance, statusInstance,
              listeners, scratchOrgLifecycleData, published, lastStage,
              settled, out, runResult >>

vars == << openVars, runVars >>

Entry(ev, n, code) == [ev |-> ev, n |-> n, code |-> code]

IsAttempt(e) == e.ev \in {"dnsOk", "dnsFail"}

\* the resolution attempts made so far, in order
Attempts == SelectSeq(olog, IsAttempt)

\* the history with the outcome e of the lookup just made: a new entry, or,
\* for a merged attempt (number MaxPolls, already in the history as its
\* last entry), that entry replaced
WithAttempt(e) ==
    IF Len(Attempts) > retryCount
    THEN [olog EXCEPT ![Len(olog)] = e]
    ELSE Append(olog, e)

\* the budget test of line 88 taken strictly
ExhaustedOffByOne(rc, max) == max # NaN /\ rc > max

\* line 88: retryCount >= open.getDomainRetries()
Exhausted(rc, max) == max # NaN /\ rc >= max

\* the spinner started on every failed attempt
StartsSpinnerAlways(rc) == TRUE

\* line 93: retryCount === 0
StartsSpinner(rc) == rc = 0

\* the spinner stopped after every successful attempt
StopsSpinnerAlways(rc) == TRUE

\* line 84: retryCount > 0
StopsSpinnerOnSuccess(rc) == rc > 0

RECURSIVE FirstFailure(_)
FirstFailure(log) ==
    IF log = << >> THEN NoErr
    ELSE IF Head(log).ev = "dnsFail"
         THEN [n |-> Head(log).n, code |-> Head(log).code]
         ELSE FirstFailure(Tail(log))

\* a poller that would rethrow the error of its first failed attempt
ThrownFirst(log, err) == FirstFailure(log)

\* line 91: throw err
Thrown(log, err) == err

\* line 132, with either half of the condition dropped
SkipCheckInternalOnly == urlInternal

SkipCheckRetriesOnly == retries = 0

\* line 132: open.getDomainRetries() === 0 || srcDevUtil.isInternalUrl(url)
SkipCheck == retries = 0 \/ urlInternal

\* lines 141-145: the inner catch replaces whatever it caught
InnerCatch(err) == "openCommandDomainTimeoutError"

\* an outer catch that would let the error through
OuterCatchRethrows(err) == FALSE

\* lines 146-149: the outer catch returns act() for every error
OuterCatchSwallows(err) == TRUE

InitOpen ==
    /\ retries \in Budgets
    /\ urlInternal \in BOOLEAN
    /\ urlMatches \in BOOLEAN
    /\ urlOnly \in BOOLEAN
    /\ opc = "start"
    /\ retryCount = 0
    /\ olog = << >>
    /\ checkState = "none"
    /\ checkErr = NoErr
    /\ caught = "none"
    /\ openPath = "none"
    /\ actCalls = 0
    /\ browserCalls = 0
    /\ openResult = "pending"

\* an error reaches the nested try/catch of lines 136-149
Catches(err) ==
    /\ caught' = InnerCatch(err)
    /\ IF OuterCatchSwallows(InnerCatch(err))
       THEN /\ opc' = "act"
            /\ openPath' = "148"
            /\ UNCHANGED openResult
       ELSE /\ opc' = "done"
            /\ openResult' = InnerCatch(err)
            /\ UNCHANGED openPath

\* open(), lines 113-139: up to the first await of checkLightningDomain
OpenStart ==
    /\ opc = "start"
    /\ IF SkipCheck
       THEN /\ opc' = "act"
            /\ openPath' = "133"
            /\ UNCHANGED << checkState, caught, openResult >>
       ELSE IF ~urlMatches
       THEN /\ Catches("TypeError")
            /\ UNCHANGED checkState
       ELSE /\ opc' = "dns"
            /\ checkState' = "running"
            /\ UNCHANGED << caught, openPath, openResult >>
    /\ UNCHANGED << retries, urlInternal, urlMatches, urlOnly, retryCount,
                    olog, checkErr, actCalls, browserCalls >>
    /\ UNCHANGED runVars

\* checkLightningDomain, lines 82-86: the lookup resolved
CheckDnsOk ==
    /\ opc = "dns"
    /\ olog' = IF StopsSpinnerOnSuccess(retryCount)
               THEN Append(WithAttempt(Entry("dnsOk", retryCount, "none")),
                           Entry("stopSpinner", retryCount, "none"))
               ELSE WithAttempt(Entry("dnsOk", retryCount, "none"))
    /\ checkState' = "ok"
    /\ opc' = "act"
    /\ openPath' = "140"
    /\ UNCHANGED << retries, urlInternal, urlMatches, urlOnly, retryCount,
                    checkErr, caught, actCalls, browserCalls, openResult >>
    /\ UNCHANGED runVars

\* checkLightningDomain, lines 87-99: the lookup rejected with code c
CheckDnsFail(c) ==
    /\ opc = "dns"
    /\ LET failed == WithAttempt(Entry("dnsFail", retryCount, c))
           err == [n |-> retryCount, code |-> c]
       IN  IF Exhausted(retryCount, retries)
           THEN /\ olog' = Append(failed,
                                  Entry("stopSpinner", retryCount, "none"))
                /\ checkState' = "threw"
                /\ checkErr' = Thrown(failed, err)
                /\ Catches("checkLightningDomain")
           ELSE /\ olog' = IF StartsSpinner(retryCount)
                           THEN Append(failed,
                                  Entry("startSpinner", retryCount, "none"))
                           ELSE failed
                /\ opc' = "delay"
                /\ UNCHANGED << checkState, checkErr, caught, openPath,
                                openResult >>
    /\ UNCHANGED << retries, urlInternal, urlMatches, urlOnly, retryCount,
                    actCalls, browserCalls >>
    /\ UNCHANGED runVars

\* the ++retryCount of line 98 written as retryCount++
NextRetryCountPostfix(rc) == rc

\* line 98: ++retryCount is the argument of the recursive call
NextRetryCount(rc) == rc + 1

\* lines 97-98: open.delay() elapsed, recurse with ++retryCount
Delay ==
    /\ opc = "delay"
    /\ IF retryCount < MaxPolls
       THEN /\ olog' = Append(olog, Entry("delay", retryCount, "none"))
            /\ retryCount' = NextRetryCount(retryCount)
       ELSE UNCHANGED << olog, retryCount >>
    /\ opc' = "dns"
    /\ UNCHANGED << retries, urlInternal, urlMatches, urlOnly, checkState,
                    checkErr, caught, openPath, actCalls, browserCalls,
                    openResult >>
    /\ UNCHANGED runVars

\* line 140 written as "return await act()": a rejection of the act called
\* inside the try block would reach the catch blocks
ActRejectionCaughtInTry(path) == path = "140"

\* lines 133, 140 and 148: "return act()" does not await the promise, so a
\* rejection of act goes to the caller of open, past the catch blocks
ActRejectionCaught(path) == FALSE

\* act, lines 124-129; launched says whether openBrowserWithUrl resolved
Act(launched) ==
    /\ opc = "act"
    /\ actCalls' = actCalls + 1
    /\ IF ~urlOnly
       THEN /\ browserCalls' = browserCalls + 1
            /\ IF ~launched /\ ActRejectionCaught(openPath)
               THEN Catches("browserError")
               ELSE /\ openResult' = IF launched THEN "retVal"
                                     ELSE "browserError"
                    /\ opc' = "done"
                    /\ UNCHANGED << caught, openPath >>
       ELSE /\ launched
            /\ openResult' = "retVal"
            /\ opc' = "done"
            /\ UNCHANGED << browserCalls, caught, openPath >>
    /\ UNCHANGED << retries, urlInternal, urlMatches, urlOnly, retryCount,
                    olog, checkState, checkErr >>
    /\ UNCHANGED runVars

NextOpen ==
    \/ OpenStart
    \/ CheckDnsOk
    \/ \E c \in DnsCodes : CheckDnsFail(c)
    \/ Delay
    \/ \E launched \in BOOLEAN : Act(launched)

(* ---------------------------------------------------------------------- *)
(* scratch-ink.tsx: inputs and state                                       *)
(* ---------------------------------------------------------------------- *)

\* scratchOrgLifecycleStages of @salesforce/core, in order
Stages == << "prepare request", "send request", "wait for org", "available",
             "authenticate", "deploy settings", "done" >>

StageIndex == 1 .. Len(Stages)

\* scratchOrgInfo.Id values the creation call can report
RequestIds == {"2SR1", "2SR2"}

NoCreateErr == [sf |-> FALSE, name |-> "none", id |-> "none"]

\* what scratchOrgCreate can reject with
CreateErrors ==
    {[sf |-> TRUE, name |-> "ScratchOrgInfoTimeoutError", id |-> x] :
        x \in RequestIds}
    \cup {[sf |-> FALSE, name |-> "ScratchOrgInfoTimeoutError", id |-> x] :
        x \in RequestIds}
    \cup {[sf |-> TRUE, name |-> "RemoteOrgSignupFailed", id |-> "none"],
          [sf |-> FALSE, name |-> "Error", id |-> "none"]}

\* line 283: new SfError('The scratch org did not return with any information')
NoInfoErr == [sf |-> TRUE, name |-> "SfError", id |-> "none"]

\* line 251: new SfError('No instance URL found for the dev hub')
NoUrlErr == [sf |-> TRUE, name |-> "SfError", id |-> "noInstanceUrl"]

\* the completed test of line 86 made inclusive
StatusKindInclusive(cur, i) ==
    IF cur = i /\ Stages[i] # "done" THEN "current"
    ELSE IF cur >= i THEN "completed"
    ELSE IF cur = i /\ Stages[i] = "done" THEN "done"
    ELSE IF Stages[i] # "done" THEN "future"
    ELSE "nothing"

\* Status, lines 73-109: how stage i is drawn when the event's stage is cur;
\* the tests are tried in the order of the code
StatusKind(cur, i) ==
    IF cur = i /\ Stages[i] # "done" THEN "current"
    ELSE IF cur > i THEN "completed"
    ELSE IF cur = i /\ Stages[i] = "done" THEN "done"
    ELSE IF Stages[i] # "done" THEN "future"
    ELSE "nothing"

\* Status, lines 38 and 73-109: nothing is drawn without data (cur = 0)
StatusView(cur) ==
    [i \in StageIndex |-> IF cur = 0 THEN "nothing" ELSE StatusKind(cur, i)]

NoInstance ==
    [made |-> FALSE, renders |-> 0, rerenders |-> 0, clears |-> 0,
     unmounts |-> 0, data |-> 0, error |-> FALSE, view |-> StatusView(0)]

\* render(...), lines 264 and 268: a new instance, rendered without data
Render == [NoInstance EXCEPT !.made = TRUE, !.renders = 1]

\* instance.rerender(<Status data={d} error={e} />)
Rerender(inst, d, e) ==
    [inst EXCEPT !.rerenders = @ + 1, !.data = d, !.error = e,
                 !.view = StatusView(d)]

\* instance.unmount()
Unmount(inst) == [inst EXCEPT !.unmounts = @ + 1]

\* instance.clear()
Clear(inst) == [inst EXCEPT !.clears = @ + 1]

Msg(kind, id) == [kind |-> kind, id |-> id]

\* line 263, with the subscription made in either mode
SubscribesAlways(async) == TRUE

\* line 263, with the subscription made in the --async branch instead
SubscribesInAsyncOnly(async) == async

\* lines 263-277: lifecycle.on is called in the else branch only
Subscribes(async) == ~async

\* line 305 without the instanceof SfError test
IsTimeoutByName(err) == err.name = "ScratchOrgInfoTimeoutError"

\* line 282 never finding the information missing
MissingInfoNever(info) == FALSE

\* line 282: !scratchOrgInfo
MissingInfo(info) == info = "none"

\* line 305, testing for another error name
IsTimeoutOtherName(err) == err.sf /\ err.name = "ScratchOrgInfoTimeout"

\* line 305: error instanceof SfError && error.name === 'ScratchOrgInfoTimeoutError'
IsTimeout(err) == err.sf /\ err.name = "ScratchOrgInfoTimeoutError"

InitRun ==
    /\ flagAsync \in BOOLEAN
    /\ hasBaseUrl \in BOOLEAN
    /\ rpc = "start"
    /\ asyncInstance = NoInstance
    /\ statusInstance = NoInstance
    /\ listeners = 0
    /\ scratchOrgLifecycleData = 0
    /\ published = 0
    /\ lastStage = 0
    /\ settled = [how |-> "pending", err |-> NoCreateErr, info |-> "none"]
    /\ out = << >>
    /\ runResult = [kind |-> "pending", err |-> NoCreateErr, code |-> 0]

\* run(), lines 247-280: up to the await of scratchOrgCreate
RunStart ==
    /\ rpc = "start"
    /\ IF ~hasBaseUrl
       THEN /\ rpc' = "done"
            /\ runResult' = [kind |-> "threw", err |-> NoUrlErr, code |-> 0]
            /\ UNCHANGED << asyncInstance, statusInstance, listeners >>
       ELSE /\ rpc' = "awaiting"
            /\ asyncInstance' = IF flagAsync THEN Render ELSE asyncInstance
            /\ statusInstance' = IF flagAsync THEN statusInstance ELSE Render
            /\ listeners' = IF Subscribes(flagAsync) THEN listeners + 1
                            ELSE listeners
            /\ UNCHANGED runResult
    /\ UNCHANGED << flagAsync, hasBaseUrl, scratchOrgLifecycleData,
                    published, lastStage, settled, out >>
    /\ UNCHANGED openVars

\* the callback of lines 269-276, called with an event of stage st
Callback(st) ==
    /\ scratchOrgLifecycleData' = st
    /\ statusInstance' =
         IF ~statusInstance.made THEN statusInstance
         ELSE IF Stages[st] = "done"
              THEN Unmount(Rerender(statusInstance, st, FALSE))
              ELSE Rerender(statusInstance, st, FALSE)

\* the creation call (or the bus, redelivering) publishes an event of stage
\* st; stages are published in non-decreasing order
Publish(st) ==
    /\ rpc \in {"awaiting", "done"}
    /\ hasBaseUrl
    /\ published < MaxEvents
    /\ st >= lastStage
    /\ published' = published + 1
    /\ lastStage' = st
    /\ IF listeners > 0
       THEN Callback(st)
       ELSE UNCHANGED << scratchOrgLifecycleData, statusInstance >>
    /\ UNCHANGED << flagAsync, hasBaseUrl, rpc, asyncInstance, listeners,
                    settled, out, runResult >>
    /\ UNCHANGED openVars

\* the catch block of lines 295-314, entered with err
CatchBlock(err) ==
    /\ asyncInstance' = IF asyncInstance.made THEN Unmount(asyncInstance)
                        ELSE asyncInstance
    /\ statusInstance' =
         IF statusInstance.made
         THEN Unmount(Rerender(statusInstance, scratchOrgLifecycleData, TRUE))
         ELSE statusInstance
    /\ IF IsTimeout(err)
       THEN /\ out' = out \o << Msg("info action.resume", err.id),
                                Msg("error", "69") >>
            /\ runResult' = [kind |-> "exit", err |-> NoCreateErr,
                             code |-> 69]
       ELSE /\ out' = out
            /\ runResult' = [kind |-> "threw", err |-> err, code |-> 0]

\* scratchOrgCreate resolved, lines 280-294; info is scratchOrgInfo.Id, or
\* "none" when the result has no scratchOrgInfo
Resolve(info) ==
    /\ rpc = "awaiting"
    /\ settled' = [how |-> "resolved", err |-> NoCreateErr, info |-> info]
    /\ IF MissingInfo(info)
       THEN CatchBlock(NoInfoErr)
       ELSE /\ asyncInstance' = IF flagAsync /\ asyncInstance.made
                                THEN Unmount(Clear(asyncInstance))
                                ELSE asyncInstance
            /\ out' = out \o << Msg("log", "none"),
                                IF flagAsync
                                THEN Msg("info action.resume", info)
                                ELSE Msg("logSuccess", "none") >>
            /\ runResult' = [kind |-> "returned", err |-> NoCreateErr,
                             code |-> 0]
            /\ UNCHANGED statusInstance
    /\ rpc' = "done"
    /\ UNCHANGED << flagAsync, hasBaseUrl, listeners,
                    scratchOrgLifecycleData, published, lastStage >>
    /\ UNCHANGED openVars

\* scratchOrgCreate rejected with err, lines 295-314
Reject(err) ==
    /\ rpc = "awaiting"
    /\ settled' = [how |-> "rejected", err |-> err, info |-> "none"]
    /\ CatchBlock(err)
    /\ rpc' = "done"
    /\ UNCHANGED << flagAsync, hasBaseUrl, listeners,
                    scratchOrgLifecycleData, published, lastStage >>
    /\ UNCHANGED openVars

NextRun ==
    \/ RunStart
    \/ \E st \in StageIndex : Publish(st)
    \/ \E info \in RequestIds \cup {"none"} : Resolve(info)
    \/ \E err \in CreateErrors : Reject(err)

(* ---------------------------------------------------------------------- *)
(* Specifications: each subsystem runs with the other one not invoked      *)
(* ---------------------------------------------------------------------- *)

\* no open() in progress
OpenIdle ==
    /\ retries = 0
    /\ urlInternal = FALSE
    /\ urlMatches = FALSE
    /\ urlOnly = FALSE
    /\ opc = "idle"
    /\ retryCount = 0
    /\ olog = << >>
    /\ checkState = "none"
    /\ checkErr = NoErr
    /\ caught = "none"
    /\ openPath = "none"
    /\ actCalls = 0
    /\ browserCalls = 0
    /\ openResult = "pending"

\* no run() in progress
RunIdle ==
    /\ flagAsync = FALSE
    /\ hasBaseUrl = FALSE
    /\ rpc = "idle"
    /\ asyncInstance = NoInstance
    /\ statusInstance = NoInstance
    /\ listeners = 0
    /\ scratchOrgLifecycleData = 0
    /\ published = 0
    /\ lastStage = 0
    /\ settled = [how |-> "pending", err |-> NoCreateErr, info |-> "none"]
    /\ out = << >>
    /\ runResult = [kind |-> "pending", err |-> NoCreateErr, code |-> 0]

\* open() is invoked, run() is not
InitOpenOnly == InitOpen /\ RunIdle

\* run() is invoked, open() is not
InitRunOnly == OpenIdle /\ InitRun

SpecOpen == InitOpenOnly /\ [][NextOpen]_vars

\* every await of open() settles: a pending lookup, delay or browser
\* launch completes
SpecOpenFair == SpecOpen /\ WF_vars(NextOpen)

SpecRun == InitRunOnly /\ [][NextRun]_vars

(* ---------------------------------------------------------------------- *)
(* open.ts: properties                                                     *)
(* ---------------------------------------------------------------------- *)

IsStart(e) == e.ev = "startSpinner"

IsStop(e) == e.ev = "stopSpinner"

Starts == Len(SelectSeq(olog, IsStart))

Stops == Len(SelectSeq(olog, IsStop))

AllFailed == \A i \in 1 .. Len(Attempts) : Attempts[i].ev = "dnsFail"

LastAttempt == Attempts[Len(Attempts)]

\* C1: with a budget N >= 1 and a resolver that has failed every time, the
\* attempts are numbered 0, 1, 2, ... without gaps, there are never more
\* than N+1 of them, and checkLightningDomain has thrown exactly when N+1
\* attempts were made.
C1_ExactlyNPlusOneAttempts ==
    (retries >= 1 /\ AllFailed) =>
        /\ \A i \in 1 .. Len(Attempts) : Attempts[i].n = i - 1
        /\ Len(Attempts) <= retries + 1
        /\ (checkState = "threw") <=> (Len(Attempts) = retries + 1)

C1_Witness ==
    /\ retries >= 2
    /\ AllFailed
    /\ checkState = "threw"
    /\ Len(Attempts) = retries + 1

\* C2: with a budget of 0, open makes no resolution attempt, never touches
\* the spinner, never enters the poller and never reaches a catch block;
\* it goes straight to the act of line 133, and when it ends act has run
\* exactly once and open returned act's outcome (retVal, unless the
\* browser launch itself rejected).
C2_ZeroBudgetSkipsCheck ==
    (retries = 0) =>
        /\ olog = << >>
        /\ checkState = "none"
        /\ caught = "none"
        /\ opc \in {"start", "act", "done"}
        /\ (opc = "done" =>
              /\ actCalls = 1
              /\ openPath = "133"
              /\ openResult \in {"retVal", "browserError"}
              /\ (openResult = "browserError" => browserCalls = 1))

C2_Witness ==
    /\ retries = 0
    /\ ~urlInternal
    /\ opc = "done"
    /\ openResult = "retVal"

\* C3: with a numeric budget, when the latest resolution attempt is number
\* k >= 1 and it succeeded, then k <= budget, attempts 0..k-1 all failed, the spinner was
\* started exactly once, right after the failure of attempt 0 and before
\* anything else, it was stopped exactly once, right after the success and
\* as the last thing the poller did, and the poller returned normally.
C3_SpinnerOncePerSession ==
    (/\ retries # NaN
     /\ Len(Attempts) > 0
     /\ LastAttempt.ev = "dnsOk"
     /\ LastAttempt.n >= 1) =>
        LET k == LastAttempt.n
        IN  /\ k <= retries
            /\ Len(Attempts) = k + 1
            /\ \A i \in 1 .. k : Attempts[i] \in
                   {Entry("dnsFail", i - 1, c) : c \in DnsCodes}
            /\ Starts = 1
            /\ olog[1].ev = "dnsFail" /\ olog[1].n = 0
            /\ olog[2] = Entry("startSpinner", 0, "none")
            /\ Stops = 1
            /\ olog[Len(olog) - 1] = Entry("dnsOk", k, "none")
            /\ olog[Len(olog)] = Entry("stopSpinner", k, "none")
            /\ checkState = "ok"
            /\ checkErr = NoErr

C3_Witness ==
    /\ checkState = "ok"
    /\ retryCount = 3
    /\ Starts = 1
    /\ Stops = 1

\* C4: when the latest resolution attempt failed and its number is at least
\* the (numeric) budget, the poller stopped the spinner right after that failure, as
\* its last effect, and threw the error of that very attempt.
C4_ThrowsLastError ==
    (/\ retries # NaN
     /\ Len(Attempts) > 0
     /\ LastAttempt.ev = "dnsFail"
     /\ LastAttempt.n >= retries) =>
        /\ checkState = "threw"
        /\ olog[Len(olog)] = Entry("stopSpinner", LastAttempt.n, "none")
        /\ olog[Len(olog) - 1] = LastAttempt
        /\ checkErr = [n |-> LastAttempt.n, code |-> LastAttempt.code]

C4_Witness ==
    /\ checkState = "threw"
    /\ retryCount >= 1
    /\ checkErr.n = retryCount
    /\ FirstFailure(olog).code # checkErr.code

\* C5: once the budget N >= 1 is exhausted (every attempt failed and the
\* poller threw), open ends by throwing openCommandDomainTimeoutError.
C5_TimeoutReachesCaller ==
    (retries >= 1 /\ checkState = "threw" /\ opc = "done") =>
        openResult = "openCommandDomainTimeoutError"

\* C6: for an internal URL, whatever the budget, open makes no resolution
\* attempt, never touches the spinner and never enters the poller or a
\* catch block; when it ends act has run exactly once, from line 133, and
\* open returned act's outcome.
C6_InternalUrlSkipsCheck ==
    urlInternal =>
        /\ Len(Attempts) = 0
        /\ Starts = 0
        /\ Stops = 0
        /\ checkState = "none"
        /\ caught = "none"
        /\ (opc = "done" =>
              /\ actCalls = 1
              /\ openPath = "133"
              /\ openResult \in {"retVal", "browserError"}
              /\ (openResult = "browserError" => browserCalls = 1))

C6_Witness ==
    /\ urlInternal
    /\ retries >= 1
    /\ opc = "done"
    /\ openResult = "retVal"

(* ---------------------------------------------------------------------- *)
(* scratch-ink.tsx: properties                                             *)
(* ---------------------------------------------------------------------- *)

\* the callback has stored an event whose stage is 'done'
DoneObserved ==
    /\ scratchOrgLifecycleData # 0
    /\ Stages[scratchOrgLifecycleData] = "done"

\* C7: in either mode, once scratchOrgCreate has rejected with an SfError
\* named ScratchOrgInfoTimeoutError carrying identifier X, run has ended,
\* all it wrote is the resume message with X followed by the error of exit
\* code 69, and it ended with that exit, not by rethrowing the rejection.
C7_TimeoutResumeThenExit69 ==
    (/\ settled.how = "rejected"
     /\ settled.err.sf
     /\ settled.err.name = "ScratchOrgInfoTimeoutError") =>
        /\ rpc = "done"
        /\ out = << Msg("info action.resume", settled.err.id),
                    Msg("error", "69") >>
        /\ runResult = [kind |-> "exit", err |-> NoCreateErr, code |-> 69]

C7_Witness ==
    /\ settled.how = "rejected"
    /\ settled.err = [sf |-> TRUE, name |-> "ScratchOrgInfoTimeoutError",
                      id |-> "2SR2"]
    /\ ~flagAsync
    /\ scratchOrgLifecycleData # 0
    /\ runResult.kind = "exit"

\* C8: with --async, at every point of the run no callback is registered
\* for the lifecycle event, no event has been stored, no Status view
\* exists or was rerendered, and the static indicator has been rendered
\* exactly once as soon as run is past its start (never a second time, and
\* not at all when run stopped for want of an instance URL).
C8_AsyncNeverSubscribes ==
    flagAsync =>
        /\ listeners = 0
        /\ scratchOrgLifecycleData = 0
        /\ statusInstance = NoInstance
        /\ asyncInstance.rerenders = 0
        /\ asyncInstance.renders =
             (IF rpc = "start" \/ ~hasBaseUrl THEN 0 ELSE 1)

C8_Witness ==
    /\ flagAsync
    /\ rpc = "done"
    /\ published >= 2
    /\ asyncInstance.renders = 1

\* C9: when run has ended, every rendering surface it created has been
\* unmounted exactly once.
C9_UnmountedExactlyOnce ==
    rpc = "done" =>
        /\ (asyncInstance.made => asyncInstance.unmounts = 1)
        /\ (statusInstance.made => statusInstance.unmounts = 1)

\* C10: in synchronous mode, once an event of stage 'done' has been
\* observed, no step rerenders the Status view.
C10_NoRenderAfterDone ==
    [][(~flagAsync /\ DoneObserved) =>
          statusInstance'.rerenders = statusInstance.rerenders]_vars

\* C11: whenever the Status view was drawn from an event of stage c, the
\* stages drawn as completed are exactly the stages of index below c, the
\* stage c itself is drawn as current when it is not 'done' and as done
\* when it is, and never as completed.
C11_CompletedArePrecedingStages ==
    statusInstance.data # 0 =>
        LET c == statusInstance.data
            v == statusInstance.view
        IN  /\ {i \in StageIndex : v[i] = "completed"} =
                  {i \in StageIndex : i < c}
            /\ v[c] # "completed"
            /\ v[c] = (IF Stages[c] = "done" THEN "done" ELSE "current")

C11_Witness ==
    /\ statusInstance.data = Len(Stages)
    /\ statusInstance.rerenders >= 2
    /\ statusInstance.view[Len(Stages)] = "done"
    /\ statusInstance.view[1] = "completed"

\* C12: in synchronous mode the callback is registered whenever the
\* creation call is pending or over, so no event is published without a
\* listener, and every published event reached the callback: the stored
\* event is the latest published one and the view was rerendered once per
\* published event (plus once by the catch block when run failed).
C12_SubscribedBeforeCall ==
    ~flagAsync =>
        /\ (rpc = "awaiting" => listeners = 1)
        /\ (published > 0 => listeners = 1)
        /\ scratchOrgLifecycleData = lastStage
        /\ statusInstance.rerenders =
             published + (IF statusInstance.made
                             /\ runResult.kind \in {"threw", "exit"}
                          THEN 1 ELSE 0)

C12_Witness ==
    /\ ~flagAsync
    /\ rpc = "awaiting"
    /\ published >= 2
    /\ listeners = 1
    /\ scratchOrgLifecycleData = lastStage
    /\ statusInstance.rerenders = published

\* C13: once scratchOrgCreate has rejected with anything but an SfError
\* named ScratchOrgInfoTimeoutError, run has ended by throwing that very
\* error, it wrote nothing (no resume hint, no error of exit code 69), and
\* unmount was called on every surface it had created.
C13_OtherRejectionRethrown ==
    (/\ settled.how = "rejected"
     /\ ~(settled.err.sf /\ settled.err.name = "ScratchOrgInfoTimeoutError"))
    =>  /\ rpc = "done"
        /\ runResult = [kind |-> "threw", err |-> settled.err, code |-> 0]
        /\ out = << >>
        /\ (asyncInstance.made => asyncInstance.unmounts >= 1)
        /\ (statusInstance.made => statusInstance.unmounts >= 1)
        /\ (asyncInstance.made \/ statusInstance.made)

C13_Witness ==
    /\ settled.how = "rejected"
    /\ settled.err = [sf |-> FALSE, name |-> "ScratchOrgInfoTimeoutError",
                      id |-> "2SR1"]
    /\ ~flagAsync
    /\ runResult.kind = "threw"
    /\ runResult.err = settled.err
    /\ statusInstance.unmounts >= 1

\* C17: run returns a result only after scratchOrgCreate resolved with a
\* scratchOrgInfo, and then it wrote the blank line followed by the success
\* message (synchronous mode) or the resume hint with the request id
\* (--async); when the call resolved without scratchOrgInfo, run has ended
\* by throwing the SfError of line 283, wrote nothing at all, and unmount
\* was called on the surface it had created.
C17_SuccessNeedsOrgInfo ==
    /\ (runResult.kind = "returned" =>
          /\ settled.how = "resolved"
          /\ settled.info \in RequestIds
          /\ out = << Msg("log", "none"),
                      IF flagAsync
                      THEN Msg("info action.resume", settled.info)
                      ELSE Msg("logSuccess", "none") >>)
    /\ ((settled.how = "resolved" /\ settled.info = "none") =>
          /\ rpc = "done"
          /\ runResult = [kind |-> "threw", err |-> NoInfoErr, code |-> 0]
          /\ out = << >>
          /\ (asyncInstance.made => asyncInstance.unmounts >= 1)
          /\ (statusInstance.made => statusInstance.unmounts >= 1)
          /\ (asyncInstance.made \/ statusInstance.made))

C17_Witness ==
    /\ settled.how = "resolved"
    /\ settled.info = "none"
    /\ ~flagAsync
    /\ runResult.kind = "threw"
    /\ statusInstance.unmounts >= 1
    /\ out = << >>

\* C14: whatever the budget and the resolver do, a poll session that has
\* started eventually ends, by checkLightningDomain returning or throwing.
C14_PollSessionEnds ==
    (checkState = "running") ~> (checkState \in {"ok", "threw"})

\* positions in the history of the resolution attempts and of the delays
AttemptIdx == {p \in 1 .. Len(olog) : IsAttempt(olog[p])}

DelayIdx == {p \in 1 .. Len(olog) : olog[p].ev = "delay"}

\* C15: the resolution attempts are numbered 0, 1, 2, ... in the order they
\* are made (the counter starts at 0 and grows by exactly 1 from one attempt
\* to the next), retryCount is the number of delays slept so far, exactly
\* one delay lies between two consecutive attempts, none precedes the first
\* attempt, at most one follows the latest attempt and none follows the
\* attempt that ended the session, and with a budget N >= 0 no attempt is
\* numbered above N.
C15_PollStepShape ==
    /\ \A i \in 1 .. Len(Attempts) : Attempts[i].n = i - 1
    /\ retryCount = Cardinality(DelayIdx)
    /\ \A p \in AttemptIdx : \A q \in AttemptIdx :
          (p < q /\ ~\E r \in AttemptIdx : p < r /\ r < q) =>
              Cardinality({d \in DelayIdx : p < d /\ d < q}) = 1
    /\ \A d \in DelayIdx : \E p \in AttemptIdx : p < d
    /\ \A p \in AttemptIdx :
          (~\E r \in AttemptIdx : r > p) =>
              Cardinality({d \in DelayIdx : d > p}) <= 1
    /\ (checkState \in {"ok", "threw"} =>
          \A d \in DelayIdx : \E p \in AttemptIdx : p > d)
    /\ (retries >= 0 => \A i \in 1 .. Len(Attempts) : Attempts[i].n <= retries)

C15_Witness ==
    /\ retries >= 2
    /\ checkState = "threw"
    /\ LastAttempt.n = retries
    /\ Cardinality(DelayIdx) = retries
    /\ Len(Attempts) = retries + 1

\* C18: when the budget is not 0, the URL is not internal and no domain can
\* be extracted from it, open makes no resolution attempt, never touches the
\* spinner and never enters the poller; the error is caught, and when open
\* ends act has run exactly once, from line 148, and open returned act's
\* outcome, never the timeout error.
C18_NoDomainProceedsUnverified ==
    (retries # 0 /\ ~urlInternal /\ ~urlMatches) =>
        /\ olog = << >>
        /\ checkState = "none"
        /\ opc \in {"start", "act", "done"}
        /\ (opc = "done" =>
              /\ actCalls = 1
              /\ openPath = "148"
              /\ openResult \in {"retVal", "browserError"}
              /\ (openResult = "browserError" => browserCalls = 1))

C18_Witness ==
    /\ retries >= 1
    /\ ~urlInternal
    /\ ~urlMatches
    /\ opc = "done"
    /\ caught = "openCommandDomainTimeoutError"
    /\ openResult = "retVal"

\* C16: once an event of stage 'done' has been observed, a further event
\* published on the bus changes neither the stored event nor the Status
\* view (no rerender, no unmount).
C16_InertAfterDone ==
    [][(DoneObserved /\ published' > published) =>
          /\ scratchOrgLifecycleData' = scratchOrgLifecycleData
          /\ statusInstance' = statusInstance]_vars

\* C19: act is never invoked twice, it has not been invoked before open
\* reaches one of its three "return act()", and when open has ended it has
\* been invoked exactly once, and the browser launched at most once.
C19_ActExactlyOnce ==
    /\ actCalls <= 1
    /\ browserCalls <= actCalls
    /\ (opc \in {"start", "dns", "delay", "act"} => actCalls = 0)
    /\ (opc = "done" => actCalls = 1)

C19_Witness ==
    /\ opc = "done"
    /\ openPath = "140"
    /\ checkState = "ok"
    /\ openResult = "browserError"
    /\ actCalls = 1

\* the spinner calls of the session so far are balanced: at most one start,
\* no stop without an earlier start, as many stops as starts once the
\* poller has returned or thrown, and neither when attempt 0 succeeded
SpinnerBalanced ==
    /\ Starts <= 1
    /\ \A p \in 1 .. Len(olog) :
          IsStop(olog[p]) => \E q \in 1 .. (p - 1) : IsStart(olog[q])
    /\ Stops <= Starts
    /\ (checkState \in {"ok", "threw"} => Starts = Stops)
    /\ ((Len(Attempts) > 0 /\ Attempts[1].ev = "dnsOk") =>
          (Starts = 0 /\ Stops = 0))

\* C20 as stated: for every non-zero integer budget, negative ones
\* included, the spinner calls of a session are balanced.
C20_SpinnerBalancedAnyBudget ==
    (retries # 0 /\ retries # NaN) => SpinnerBalanced

\* C20: for every positive integer budget the spinner calls of a session
\* are balanced; with a negative budget the spinner is never started, and
\* it is stopped once exactly when attempt 0 failed.
C20_SpinnerBalancedPositiveBudget ==
    /\ (retries >= 1 => SpinnerBalanced)
    /\ ((retries # NaN /\ retries < 0) =>
          /\ Starts = 0
          /\ Stops = (IF Len(Attempts) > 0 /\ Attempts[1].ev = "dnsFail"
                      THEN 1 ELSE 0))

C20_Witness ==
    /\ retries >= 1
    /\ checkState = "threw"
    /\ Starts = 1
    /\ Stops = 1
    /\ olog[Len(olog)].ev = "stopSpinner"

====
